---- MODULE Spec2Model ----
(***************************************************************************)
(* Model of signalfx_detector_syncer.syncer.Syncer: one-way reconciliation *)
(* of detector files against the detectors the tool owns in SignalFx.      *)
(*                                                                         *)
(* Strings are sequences of atoms.  The two tag prefixes 'from:' and       *)
(* 'scope:' are atoms of their own, so startswith() and split() are        *)
(* computed on the text, as the code computes them.  A tag is a string, a  *)
(* tag list is a sequence of strings.                                      *)
(*                                                                         *)
(* Spec is the tool run again and again on one directory; SpecShared adds  *)
(* another writer deleting detectors during a run; SpecFresh starts from   *)
(* an empty service and edits the directory between runs; SpecLoader is    *)
(* _DetectorLoader.load applied to any parsed payload.                     *)
(***************************************************************************)
EXTENDS Integers, Sequences, FiniteSets, TLC

VARIABLES
    files,          \* the directory: path -> file (declared tags, mtime)
    remote,         \* the detectors held by the service
    pc,             \* position of the current sync run
    scope,          \* Syncer._scope of the current run ("" when unscoped)
    dry_run,        \* Syncer._dry_run of the current run
    from_files,     \* sync(): from_files
    from_signalfx,  \* sync(): from_signalfx
    part,           \* sync(): new, common, updated, removed as computed
    todo,           \* sync(): what the three apply loops have not visited
    calls,          \* client calls issued by the current run, in order
    remote0,        \* the service's detectors when the current run started
    rerun,          \* the current run repeats a completed non-dry run:
                    \* same scope, and the files as that run loaded them
    retry,          \* the current run repeats a non-dry run that failed:
                    \* same scope, same files; with the paths that run
                    \* had created, updated or deleted before it failed
    runs,           \* how many runs were started
    parsed,         \* _DetectorLoader.load: what _load() parsed from a file
    loaded,         \* _DetectorLoader.load: what load() raised or returned
    gone            \* ids of detectors someone else deleted during the run

vars == <<files, remote, pc, scope, dry_run, from_files, from_signalfx,
          part, todo, calls, remote0, rerun, retry, runs, parsed, loaded, gone>>

----------------------------------------------------------------------------
\* Bounds

MaxTime == 2
MaxDetectors == 2
MaxRuns == 3
MaxRules == 2

Times == 1..MaxTime
Ids == 1..MaxDetectors

Paths == { <<"a">>, <<"b">> }
Scopes == { <<>>, <<"teamA">> }

----------------------------------------------------------------------------
\* Tag vocabulary

SYNCER_MARKER_TAG == <<"signalfx-detector-syncer">>
FROM_TAG_PREFIX == "from:"
SCOPE_TAG_PREFIX == "scope:"

FromTag(path) == <<FROM_TAG_PREFIX>> \o path
ScopeTag(s) == <<SCOPE_TAG_PREFIX>> \o s

\* tag lists a detector file may declare in its 'tags' field
DeclaredTags == { <<>>, << FromTag(<<"b">>) >>, << ScopeTag(<<"teamB">>) >> }

NoPayload == [tags |-> <<>>, lastUpdated |-> 0]

Range(s) == { s[i] : i \in DOMAIN s }

\* str.startswith(prefix), prefix one atom
startswith(s, prefix) == Len(s) >= 1 /\ s[1] = prefix

\* str.split(sep), sep one atom: the pieces between the occurrences of sep
RECURSIVE split(_, _)
split(s, sep) ==
    IF \A i \in DOMAIN s : s[i] # sep
    THEN << s >>
    ELSE LET i == CHOOSE k \in DOMAIN s :
                      s[k] = sep /\ \A j \in 1..(k - 1) : s[j] # sep
         IN  << SubSeq(s, 1, i - 1) >> \o split(SubSeq(s, i + 1, Len(s)), sep)

----------------------------------------------------------------------------
\* _DetectorLoader.  A parsed payload holds, for 'name' and 'description',
\* what the document gives: no such key, null, '' or a text; for 'rules' the
\* type of the value and its entries.  The rule objects live in a heap and
\* the entries refer to them, since load() changes the objects in place and
\* two entries may be one object (a YAML alias).  Labels are 1..MaxRules, 0
\* stands for a rule without 'detectLabel'.

Refs == 1..MaxRules
Labels == 1..MaxRules

FieldValues == {"absent", "None", "empty", "text"}
RulesTypes == {"absent", "NoneType", "str", "list", "dict"}

\* rule objects: the severity tells them apart, the label is absent or stale
Heaps ==
    { h \in [Refs -> [detectLabel : {0, MaxRules}, severity : Refs]] :
          \A r \in Refs : h[r].severity = r }

\* the entries of a list (key 0) or the items of a dict (distinct keys)
Entries(keys) ==
    UNION { { e \in [1..n -> [key : keys, ref : Refs]] :
                  \A i, j \in 1..n :
                      (i # j /\ e[i].key # 0) => e[i].key # e[j].key }
            : n \in 0..MaxRules }

Payloads ==
    { d \in [name : FieldValues, description : FieldValues,
              rules_type : RulesTypes,
              rules : Entries({0}) \cup Entries(Labels), heap : Heaps] :
          /\ d.rules_type = "list" => d.rules \in Entries({0})
          /\ d.rules_type = "dict" => d.rules \in Entries(Labels)
          /\ d.rules_type \notin {"list", "dict"} =>
                /\ d.rules = << >>
                /\ \A r \in Refs : d.heap[r].detectLabel = 0 }

NoPayloadDoc ==
    [name |-> "absent", description |-> "absent", rules_type |-> "absent",
     rules |-> << >>, heap |-> [r \in Refs |-> [detectLabel |-> 0, severity |-> r]]]

NoResult == [raised |-> "not called", detector |-> NoPayloadDoc]

\* `not x` for the value of a field that is there
falsy(v) == v \in {"None", "empty"}

\* _DetectorLoader.validate: the exception raised, or "none"
validate(detector) ==
    IF detector.name = "absent" THEN "KeyError"
    ELSE IF falsy(detector.name) THEN "ValueError"
    ELSE IF detector.description = "absent" THEN "KeyError"
    ELSE IF falsy(detector.description) THEN "ValueError"
    ELSE IF (IF detector.rules_type = "absent" THEN "list"
             ELSE detector.rules_type) \notin {"list", "dict"}
         THEN "ValueError"
    ELSE "none"

\* load(): rule['detectLabel'] = label for the items of the dict, in order
RECURSIVE label_rules(_, _)
label_rules(items, heap) ==
    IF items = << >> THEN heap
    ELSE label_rules(Tail(items),
             [heap EXCEPT ![Head(items).ref].detectLabel = Head(items).key])

\* _DetectorLoader.load: validate, then a dict of rules made a list
load(detector) ==
    LET raised == validate(detector) IN
    IF raised # "none" THEN [raised |-> raised, detector |-> detector]
    ELSE IF detector.rules_type = "dict"
         THEN [raised |-> "none",
               detector |->
                   [detector EXCEPT
                       !.rules_type = "list",
                       !.rules = [i \in DOMAIN @ |-> [@[i] EXCEPT !.key = 0]],
                       !.heap = label_rules(detector.rules, @)]]
    ELSE [raised |-> "none", detector |-> detector]

----------------------------------------------------------------------------
\* Detector files.  A file is whether open() succeeds, how its contents
\* start, the payload its loader parses from it, the tags that payload
\* declares, and st_mtime, kept in microseconds.

UsPerMs == 1000

\* modification times: half a millisecond past the milliseconds of Times
FileTimes == { t * UsPerMs + (UsPerMs \div 2) : t \in Times }

GoodPayload == [NoPayloadDoc EXCEPT !.name = "text", !.description = "text"]

NoFile == [tags |-> <<>>, mtime |-> 0, readable |-> TRUE, head |-> "",
           doc |-> NoPayloadDoc]

\* files that load
FileRecs ==
    [tags : DeclaredTags, mtime : FileTimes, readable : {TRUE},
     head : {"---\n"}, doc : {GoodPayload}]

\* files that do not: unreadable, of no known format, failing validation
BadFiles ==
    LET f == [tags |-> <<>>, mtime |-> UsPerMs, readable |-> TRUE,
              head |-> "---\n", doc |-> GoodPayload]
    IN  { [f EXCEPT !.readable = FALSE],
          [f EXCEPT !.head = "#"],
          [f EXCEPT !.head = "{", !.doc = [GoodPayload EXCEPT !.name = "empty"]] }

\* Syncer._load_detector: the exception loading a file raises, or "none"
load_error(f) ==
    IF ~f.readable THEN "IOError"
    ELSE IF f.head = "{" THEN load(f.doc).raised
    ELSE IF f.head = "---\n" THEN load(f.doc).raised
    ELSE "ValueError"

\* int(os.stat(file_path).st_mtime * 1000): whole milliseconds, truncated
last_change_ms(f) == f.mtime \div UsPerMs

----------------------------------------------------------------------------
\* (fault: the scope tag left out of self._tags)
self_tags_marker(s) == << SYNCER_MARKER_TAG >>

\* Syncer.__init__: self._tags
self_tags(s) ==
    IF s # <<>> THEN << SYNCER_MARKER_TAG, ScopeTag(s) >>
                ELSE << SYNCER_MARKER_TAG >>

\* Syncer._load_detector: the record of one file, stamped with lastUpdated
\* and with the syncer's tags appended to the declared ones
load_detector(s, path, f) ==
    [tags |-> f.tags \o self_tags(s) \o << FromTag(path) >>,
     lastUpdated |-> last_change_ms(f)]

\* Syncer.load_files: every file of the directory, keyed by relative path
load_files(s, dir) ==
    [p \in { q \in Paths : dir[q] # NoFile } |-> load_detector(s, p, dir[p])]

\* (fault: a file that does not load is passed over)
scan_errors_none(dir) == {}

\* Syncer.load_files: the exceptions loading the files of the directory
\* raises; the first one met ends load_files and the sync
scan_errors(dir) ==
    { load_error(dir[p]) : p \in { q \in Paths : dir[q] # NoFile } } \ {"none"}

----------------------------------------------------------------------------
\* The service behind self._client (signalfx REST client): detectors are
\* [id, tags, lastUpdated, body]; body stands for the content last sent
\* (the file revision, identified by the payload's lastUpdated).

NoDetector == [id |-> 0, tags |-> <<>>, lastUpdated |-> 0, body |-> 0]

\* client.get_detectors(tags=...): the detectors carrying every given tag
get_detectors(svc, tags) ==
    { d \in svc : \A i \in DOMAIN tags : tags[i] \in Range(d.tags) }

\* client.create_detector(detector): stored under a fresh id, lastUpdated
\* set by the service
create_detector(svc, id, t, detector) ==
    svc \cup { [id |-> id, tags |-> detector.tags, lastUpdated |-> t,
                body |-> detector.lastUpdated] }

\* client.update_detector(id, detector): the detector of that id replaced
update_detector(svc, id, t, detector) ==
    { d \in svc : d.id # id } \cup
    { [id |-> id, tags |-> detector.tags, lastUpdated |-> t,
       body |-> detector.lastUpdated] }

\* client.delete_detector(id, ignore_not_found=True)
delete_detector(svc, id) == { d \in svc : d.id # id }

\* whether a delete call returns: a target that is not there is an error
\* unless the caller asked for it to be ignored
delete_detector_returns(svc, id, ignore_not_found) ==
    ignore_not_found \/ \E d \in svc : d.id = id
delete_tag_returns(svc, tag, ignore_not_found) ==
    ignore_not_found \/ \E d \in svc : tag \in Range(d.tags)

\* client.delete_tag(tag, ignore_not_found=True): the tag is deleted by name;
\* strip tells whether the service also takes it off the detectors carrying it
delete_tag(svc, tag, strip) ==
    IF strip
    THEN { [d EXCEPT !.tags = SelectSeq(d.tags, LAMBDA x : x # tag)] : d \in svc }
    ELSE svc

\* the id the service hands out to a new detector: the first one free
FreshIds(svc) ==
    { i \in Ids : /\ \A d \in svc : d.id # i
                  /\ \A j \in 1..(i - 1) : \E d \in svc : d.id = j }

----------------------------------------------------------------------------
\* (fault: no test for scope tags in an unscoped run)
by_path_noscope(s, detector) ==
    LET tags == Range(detector.tags)
        froms == { t \in tags : startswith(t, FROM_TAG_PREFIX) }
    IN  IF froms = {} THEN { <<>> }
        ELSE { split(t, FROM_TAG_PREFIX)[2] : t \in froms }

\* (fault: any tag taken as the provenance tag)
by_path_anytag(s, detector) ==
    LET tags == Range(detector.tags)
    IN  IF s = <<>> /\ \E t \in tags : startswith(t, SCOPE_TAG_PREFIX)
        THEN { <<>> }
        ELSE { IF startswith(t, FROM_TAG_PREFIX)
               THEN split(t, FROM_TAG_PREFIX)[2] ELSE t : t \in tags }

\* load_from_signalfx.by_path: the keys by_path may return for a detector,
\* one per iteration order of set(detector['tags']); <<>> stands for None
\* (an empty path is falsy and gives None as well)
by_path(s, detector) ==
    LET tags == Range(detector.tags)
        froms == { t \in tags : startswith(t, FROM_TAG_PREFIX) }
    IN  IF s = <<>> /\ \E t \in tags : startswith(t, SCOPE_TAG_PREFIX)
        THEN { <<>> }
        ELSE IF froms = {} THEN { <<>> }
        ELSE { split(t, FROM_TAG_PREFIX)[2] : t \in froms }

\* Syncer.load_from_signalfx: the dicts dict(filter(None, map(by_path, ...)))
\* may build: each listed detector keyed by by_path; of several detectors
\* with one key the dict keeps the last the service listed
load_from_signalfx(s, svc) ==
    LET listing == get_detectors(svc, self_tags(s))
        Keys == UNION { by_path(s, d) : d \in listing }
        keyings == { k \in [listing -> Keys] :
                        \A d \in listing : k[d] \in by_path(s, d) }
    IN  UNION { LET keys == { k[d] : d \in listing } \ { <<>> }
                IN  { m \in [keys -> listing] : \A p \in keys : k[m[p]] = p }
                : k \in keyings }

\* sync(): the partition of the paths
new_of(ff, fs) == DOMAIN ff \ DOMAIN fs
common_of(ff, fs) == DOMAIN ff \cap DOMAIN fs

\* (fault: removed taken as every remote path)
removed_of_all(ff, fs) == DOMAIN fs

removed_of(ff, fs) == DOMAIN fs \ DOMAIN ff

updated_of(ff, fs) ==
    { p \in common_of(ff, fs) : ff[p].lastUpdated > fs[p].lastUpdated }

partition(ff, fs) ==
    [new |-> new_of(ff, fs), common |-> common_of(ff, fs),
     updated |-> updated_of(ff, fs), removed |-> removed_of(ff, fs)]

NoPart == [new |-> {}, common |-> {}, updated |-> {}, removed |-> {}]
NoTodo == [new |-> {}, updated |-> {}, removed |-> {}]

\* one client call as logged: what was called, for which path and id, with
\* which payload, whether it returned, and what the service did
Call(op, path, id, payload, ok, t, strip) ==
    [op |-> op, path |-> path, id |-> id, payload |-> payload, ok |-> ok,
     t |-> t, strip |-> strip]

----------------------------------------------------------------------------
\* Detectors the service may hold before the first run: made by hand or left
\* by earlier runs.  The service starts empty or with all of them.
InitDetectors ==
    { [id |-> MaxDetectors + 1, tags |-> << FromTag(<<"a">>) >>,
       lastUpdated |-> 1, body |-> 0],
      [id |-> MaxDetectors + 2, tags |-> << SYNCER_MARKER_TAG >>,
       lastUpdated |-> 1, body |-> 0],
      [id |-> MaxDetectors + 3,
       tags |-> << SYNCER_MARKER_TAG, FromTag(<<"a">>) >>,
       lastUpdated |-> 1, body |-> 1],
      [id |-> MaxDetectors + 4,
       tags |-> << SYNCER_MARKER_TAG, ScopeTag(<<"teamA">>), FromTag(<<"a">>) >>,
       lastUpdated |-> 1, body |-> 1],
      [id |-> MaxDetectors + 5,
       tags |-> << SYNCER_MARKER_TAG, FromTag(<<"c">>) >>,
       lastUpdated |-> 1, body |-> 1] }

NoRetry == [on |-> FALSE, done |-> {}]

\* the paths for which a log holds a create, update or delete that returned
Mutated(log) ==
    { log[i].path : i \in { j \in DOMAIN log :
          /\ log[j].ok
          /\ log[j].op \in {"create_detector", "update_detector",
                            "delete_detector"} } }

\* the directories the tool is run on: a.yaml may declare tags of its own
InitFiles ==
    { f \in [Paths -> FileRecs \cup BadFiles \cup {NoFile}] :
          f[<<"b">>].tags = <<>> }

Init ==
    /\ files \in InitFiles
    /\ remote \in { {}, InitDetectors }
    /\ pc = "idle"
    /\ scope = <<>>
    /\ dry_run = FALSE
    /\ from_files = <<>>
    /\ from_signalfx = <<>>
    /\ part = NoPart
    /\ todo = NoTodo
    /\ calls = <<>>
    /\ remote0 = remote
    /\ rerun = FALSE
    /\ retry = NoRetry
    /\ runs = 0
    /\ parsed = NoPayloadDoc
    /\ loaded = NoResult
    /\ gone = {}

\* the service's clock, which stamps lastUpdated: it advances from run to run
now == runs

Idle == pc \in {"idle", "done", "failed", "scan_failed"}

\* __main__.main builds a Syncer with a scope and a dry-run flag; sync()
\* starts by loading the files
Scan ==
    /\ Idle
    /\ runs < MaxRuns
    /\ \E s \in Scopes, d \in BOOLEAN :
          /\ scope' = s
          /\ dry_run' = d
          /\ IF scan_errors(files) = {}
             THEN /\ from_files' = load_files(s, files)
                  /\ pc' = "scanned"
                  /\ rerun' = ( /\ pc = "done" /\ ~dry_run /\ ~d /\ scope = s
                                /\ from_files = load_files(s, files) )
                  /\ retry' = IF /\ pc = "failed" /\ ~dry_run /\ ~d
                                 /\ scope = s
                                 /\ from_files = load_files(s, files)
                              THEN [on |-> TRUE, done |-> Mutated(calls)]
                              ELSE NoRetry
             ELSE /\ from_files' = <<>>
                  /\ pc' = "scan_failed"
                  /\ rerun' = FALSE
                  /\ retry' = NoRetry
    /\ from_signalfx' = <<>>
    /\ part' = NoPart
    /\ todo' = NoTodo
    /\ calls' = <<>>
    /\ remote0' = remote
    /\ runs' = runs + 1
    /\ gone' = {}
    /\ UNCHANGED <<files, remote, parsed, loaded>>

\* sync(): load_from_signalfx() and the partition, or the listing raises
List ==
    /\ pc = "scanned"
    /\ \/ \E m \in load_from_signalfx(scope, remote) :
             /\ from_signalfx' = m
             /\ part' = partition(from_files, m)
             /\ todo' = [new |-> new_of(from_files, m),
                         updated |-> updated_of(from_files, m),
                         removed |-> removed_of(from_files, m)]
             /\ calls' = Append(calls, Call("get_detectors", <<>>, 0,
                                            NoPayload, TRUE, 0, FALSE))
             /\ pc' = "apply"
       \/ /\ calls' = Append(calls, Call("get_detectors", <<>>, 0,
                                         NoPayload, FALSE, 0, FALSE))
          /\ pc' = "failed"
          /\ UNCHANGED <<from_signalfx, part, todo>>
    /\ UNCHANGED <<files, remote, scope, dry_run, from_files, remote0, rerun,
                   retry, runs, parsed, loaded, gone>>

\* Syncer.create_detector / update_detector: the client call made for a new
\* or updated path

\* (fault: a new path validated, never created)
create_op_validate(dry) == "validate_detector"

create_op(dry) == IF ~dry THEN "create_detector" ELSE "validate_detector"
update_op(dry) == IF ~dry THEN "update_detector" ELSE "validate_detector"

\* (fault: removal not guarded by the dry-run flag)
remove_ops_always(dry) == << "delete_detector", "delete_tag" >>

\* Syncer.remove_detector: the client calls made for a removed path
remove_ops(dry) ==
    IF ~dry THEN << "delete_detector", "delete_tag" >> ELSE << >>

\* (fault: the error of a client call swallowed, the loop goes on)
next_pc_swallow(ok) == "apply"

\* sync(): a client call that raises ends the run, nothing catches it
next_pc(ok) == IF ok THEN "apply" ELSE "failed"

\* (fault: the update loop not held back until the create loop is done)
may_update_any(td) == TRUE

\* sync(): the three loops run one after the other: new, updated, removed
may_update(td) == td.new = {}
may_remove(td) == td.new = {} /\ td.updated = {}

\* Syncer.create_detector for one path of new
Create ==
    /\ pc = "apply"
    /\ \E path \in todo.new :
        LET detector == from_files[path]
            op == create_op(dry_run) IN
        /\ todo' = [todo EXCEPT !.new = @ \ {path}]
        /\ \/ /\ op = "create_detector"
              /\ \E id \in FreshIds(remote) :
                    /\ remote' = create_detector(remote, id, now, detector)
                    /\ calls' = Append(calls,
                                   Call(op, path, id, detector, TRUE, now, FALSE))
              /\ pc' = next_pc(TRUE)
           \/ /\ op = "validate_detector"
              /\ calls' = Append(calls,
                             Call(op, path, 0, detector, TRUE, 0, FALSE))
              /\ pc' = next_pc(TRUE)
              /\ UNCHANGED remote
           \/ /\ calls' = Append(calls,
                             Call(op, path, 0, detector, FALSE, 0, FALSE))
              /\ pc' = next_pc(FALSE)
              /\ UNCHANGED remote
    /\ UNCHANGED <<files, scope, dry_run, from_files, from_signalfx, part,
                   remote0, rerun, retry, runs, parsed, loaded, gone>>

\* Syncer.update_detector for one path of updated, once new is done
Update ==
    /\ pc = "apply"
    /\ may_update(todo)
    /\ \E path \in todo.updated :
        LET original == from_signalfx[path]
            detector == from_files[path]
            op == update_op(dry_run)
            id == IF op = "update_detector" THEN original.id ELSE 0 IN
        /\ todo' = [todo EXCEPT !.updated = @ \ {path}]
        /\ \/ /\ op = "update_detector"
              /\ \E d \in remote : d.id = id
              /\ remote' = update_detector(remote, id, now, detector)
              /\ calls' = Append(calls,
                             Call(op, path, id, detector, TRUE, now, FALSE))
              /\ pc' = next_pc(TRUE)
           \/ /\ op = "validate_detector"
              /\ calls' = Append(calls,
                             Call(op, path, 0, detector, TRUE, 0, FALSE))
              /\ pc' = next_pc(TRUE)
              /\ UNCHANGED remote
           \/ /\ calls' = Append(calls,
                             Call(op, path, id, detector, FALSE, 0, FALSE))
              /\ pc' = next_pc(FALSE)
              /\ UNCHANGED remote
    /\ UNCHANGED <<files, scope, dry_run, from_files, from_signalfx, part,
                   remote0, rerun, retry, runs, parsed, loaded, gone>>

\* (fault: the delete calls made without ignore_not_found)
ignore_not_found_unset == FALSE

\* Syncer.remove_detector: both delete calls pass ignore_not_found=True
ignore_not_found == TRUE

\* Syncer.remove_detector for one path
RemovePath(path) ==
    LET detector == from_signalfx[path]
        ops == remove_ops(dry_run)
        del == Call("delete_detector", path, detector.id, NoPayload,
                    TRUE, 0, FALSE)
        deltag == Call("delete_tag", path, 0, NoPayload, TRUE, 0, FALSE)
        after == delete_detector(remote, detector.id) IN
    /\ todo' = [todo EXCEPT !.removed = @ \ {path}]
    /\ \/ /\ ops # << >>
          /\ delete_detector_returns(remote, detector.id, ignore_not_found)
          /\ delete_tag_returns(after, FromTag(path), ignore_not_found)
          /\ \E strip \in BOOLEAN :
                /\ remote' = delete_tag(after, FromTag(path), strip)
                /\ calls' = calls \o
                              << del, [deltag EXCEPT !.strip = strip] >>
          /\ pc' = next_pc(TRUE)
       \/ /\ ops # << >>
          /\ delete_detector_returns(remote, detector.id, ignore_not_found)
          /\ remote' = after
          /\ calls' = calls \o << del, [deltag EXCEPT !.ok = FALSE] >>
          /\ pc' = next_pc(FALSE)
       \/ /\ ops # << >>
          /\ calls' = Append(calls, [del EXCEPT !.ok = FALSE])
          /\ pc' = next_pc(FALSE)
          /\ UNCHANGED remote
       \/ /\ ops = << >>
          /\ pc' = next_pc(TRUE)
          /\ UNCHANGED <<remote, calls>>
    /\ UNCHANGED <<files, scope, dry_run, from_files, from_signalfx, part,
                   remote0, rerun, retry, runs, parsed, loaded, gone>>

\* sync(): the loop over removed, once updated is done
Remove ==
    /\ pc = "apply"
    /\ may_remove(todo)
    /\ \E path \in todo.removed : RemovePath(path)

\* sync() returns
Finish ==
    /\ pc = "apply"
    /\ todo = NoTodo
    /\ pc' = "done"
    /\ UNCHANGED <<files, remote, scope, dry_run, from_files, from_signalfx,
                   part, todo, calls, remote0, rerun, retry, runs, parsed, loaded, gone>>

Next == Scan \/ List \/ Create \/ Update \/ Remove \/ Finish

Spec == Init /\ [][Next]_vars

----------------------------------------------------------------------------
\* Runs during which someone else deletes detectors: the service is shared,
\* a detector the run has listed may be gone when the run comes to it

Vanish ==
    /\ pc = "apply"
    /\ ~dry_run
    /\ gone = {}
    /\ \E p \in todo.updated \cup todo.removed :
          /\ \E d \in remote : d.id = from_signalfx[p].id
          /\ remote' = delete_detector(remote, from_signalfx[p].id)
          /\ gone' = gone \cup { from_signalfx[p].id }
    /\ UNCHANGED <<files, pc, scope, dry_run, from_files, from_signalfx,
                   part, todo, calls, remote0, rerun, retry, runs, parsed,
                   loaded>>

NextShared == Next \/ Vanish

SpecShared == Init /\ [][NextShared]_vars

----------------------------------------------------------------------------
\* Runs over a directory that is edited between them, the service holding
\* nothing before the first run

InitFresh == Init /\ remote = {}

\* between two runs a file is added, rewritten or deleted
EditFile ==
    /\ Idle
    /\ runs >= 1
    /\ runs < MaxRuns
    /\ \E p \in Paths, f \in FileRecs \cup {NoFile} :
          /\ f # files[p]
          /\ f = NoFile \/ f.mtime >= files[p].mtime
          /\ [files EXCEPT ![p] = f] \in InitFiles
          /\ files' = [files EXCEPT ![p] = f]
    /\ UNCHANGED <<remote, pc, scope, dry_run, from_files, from_signalfx,
                   part, todo, calls, remote0, rerun, retry, runs, parsed,
                   loaded, gone>>

NextFresh == Next \/ EditFile

SpecFresh == InitFresh /\ [][NextFresh]_vars

----------------------------------------------------------------------------
\* _DetectorLoader.load on its own: any parsed payload, loaded once

InitLoader ==
    /\ files = [p \in Paths |-> NoFile]
    /\ remote = {}
    /\ pc = "idle"
    /\ scope = <<>>
    /\ dry_run = FALSE
    /\ from_files = <<>>
    /\ from_signalfx = <<>>
    /\ part = NoPart
    /\ todo = NoTodo
    /\ calls = <<>>
    /\ remote0 = remote
    /\ rerun = FALSE
    /\ retry = NoRetry
    /\ runs = 0
    /\ parsed \in Payloads
    /\ loaded = NoResult
    /\ gone = {}

Load ==
    /\ loaded = NoResult
    /\ loaded' = load(parsed)
    /\ UNCHANGED <<files, remote, pc, scope, dry_run, from_files,
                   from_signalfx, part, todo, calls, remote0, rerun, retry,
                   runs, parsed, gone>>

NextLoader == Load

SpecLoader == InitLoader /\ [][NextLoader]_vars

----------------------------------------------------------------------------
\* Properties

\* the listing of the current run has returned
Listed == Len(calls) >= 1 /\ calls[1].op = "get_detectors" /\ calls[1].ok

CallsFor(path) == { i \in DOMAIN calls : calls[i].path = path }

\* C1: once the listing has returned, new = L \ R, common = L /\ R and
\* removed = R \ L for the local paths L and the remote paths R; the three
\* are pairwise disjoint and cover L \/ R.
C1_Partition ==
    Listed =>
        LET L == DOMAIN from_files
            R == DOMAIN from_signalfx
        IN  /\ part.new = L \ R
            /\ part.common = L \cap R
            /\ part.removed = R \ L
            /\ part.new \cap part.common = {}
            /\ part.new \cap part.removed = {}
            /\ part.common \cap part.removed = {}
            /\ part.new \cup part.common \cup part.removed = L \cup R

C1_Witness ==
    Listed /\ part.new # {} /\ part.common # {} /\ part.removed # {}

C2_Witness ==
    /\ pc = "done"
    /\ ~dry_run
    /\ \E p \in part.common :
          from_files[p].lastUpdated = from_signalfx[p].lastUpdated
    /\ \E p \in part.updated : CallsFor(p) # {}

\* the scope tags and the provenance tags a detector carries
ScopeTags(d) == { t \in Range(d.tags) : startswith(t, SCOPE_TAG_PREFIX) }
FromTags(d) == { t \in Range(d.tags) : startswith(t, FROM_TAG_PREFIX) }

\* the scope tags of a detector that belongs to scope s
OwnScope(s) == IF s = <<>> THEN {} ELSE { ScopeTag(s) }

\* owned: marked by the syncer and carrying a provenance tag
Owned(d) == SYNCER_MARKER_TAG \in Range(d.tags) /\ FromTags(d) # {}
InScope(d, s) == ScopeTags(d) = OwnScope(s)

\* the identities a detector's provenance tags name: the text after 'from:'
Identities(d) == { Tail(t) : t \in FromTags(d) }

Mutations == {"create_detector", "update_detector", "delete_detector",
              "delete_tag"}

\* C3: a non-dry-run sync that completes right after a completed non-dry-run
\* sync of the same scope over the same files issues no create, no update
\* and no delete call.
C3_Idempotent ==
    (pc = "done" /\ rerun) => \A i \in DOMAIN calls : calls[i].op \notin Mutations

\* C4: a dry run leaves the service as it found it and calls nothing but
\* the listing and validate_detector; when it completes it has validated
\* the local record of every new and every updated path, once each, and has
\* called nothing for a removed path.
C4_DryRun ==
    dry_run =>
        /\ remote = remote0
        /\ \A i \in DOMAIN calls :
              calls[i].op \in {"get_detectors", "validate_detector"}
        /\ pc = "done" =>
              /\ \A p \in part.new \cup part.updated :
                    \E i \in DOMAIN calls :
                        /\ CallsFor(p) = {i}
                        /\ calls[i].op = "validate_detector"
                        /\ calls[i].payload = from_files[p]
                        /\ calls[i].payload = load_detector(scope, p, files[p])
              /\ \A p \in part.removed : CallsFor(p) = {}

C4_Witness ==
    /\ dry_run /\ pc = "done"
    /\ part.new # {} /\ part.updated # {} /\ part.removed # {}

\* C5: when a non-dry-run sync has completed, the identities of the owned
\* detectors of the run's scope are exactly the local paths, and every path
\* that was new or updated has a detector carrying the local record.
C5_Mirror ==
    (pc = "done" /\ ~dry_run) =>
        /\ UNION { Identities(d) :
                     d \in { e \in remote : Owned(e) /\ InScope(e, scope) } }
             = DOMAIN from_files
        /\ \A p \in part.new \cup part.updated :
              \E d \in remote :
                  /\ Owned(d) /\ InScope(d, scope)
                  /\ p \in Identities(d)
                  /\ d.tags = from_files[p].tags
                  /\ d.body = from_files[p].lastUpdated

\* C6: the remote set of an unscoped run holds no detector with a scope
\* tag; the remote set of a run scoped to teamA holds no detector without
\* a scope tag.
C6_ScopeIsolation ==
    Listed =>
        \A p \in DOMAIN from_signalfx :
            /\ scope = <<>> => ScopeTags(from_signalfx[p]) = {}
            /\ scope = <<"teamA">> => ScopeTags(from_signalfx[p]) # {}

C6_Witness ==
    /\ Listed
    /\ DOMAIN from_signalfx # {}
    /\ \/ scope = <<>> /\ \E d \in remote0 : Owned(d) /\ ScopeTags(d) # {}
       \/ scope = <<"teamA">> /\ \E d \in remote0 : Owned(d) /\ ScopeTags(d) = {}

\* a detector of another scope than s
Foreign(d, s) ==
    IF s = <<>> THEN ScopeTags(d) # {} ELSE ScopeTag(s) \notin Range(d.tags)

\* C7: no step of a run of scope s creates, updates, deletes or retags a
\* detector of another scope.
C7_OtherScopesUntouched ==
    [][ pc = "apply" =>
          /\ \A d \in remote : Foreign(d, scope) => d \in remote'
          /\ \A d \in remote' \ remote : ~Foreign(d, scope) ]_vars

\* C8: every detector of the remote set carries exactly the scope tag of
\* the run: none when unscoped, the one tag scope:<scope> when scoped.
C8_ExactScope ==
    Listed =>
        \A p \in DOMAIN from_signalfx :
            ScopeTags(from_signalfx[p]) = OwnScope(scope)

\* C9: every detector of the remote set carries the marker tag and a
\* provenance tag, and every update or delete call targets the id of a
\* detector that carries both when the call is made.
C9_Ownership ==
    [][ /\ \A p \in DOMAIN from_signalfx' : Owned(from_signalfx'[p])
        /\ \A i \in DOMAIN calls' \ DOMAIN calls :
              calls'[i].op \in {"update_detector", "delete_detector"} =>
                  \A d \in remote : d.id = calls'[i].id => Owned(d) ]_vars

C9_Witness ==
    /\ pc = "done" /\ ~dry_run
    /\ \E d \in remote : ~Owned(d)
    /\ \E i \in DOMAIN calls : calls[i].op = "update_detector"
    /\ \E i \in DOMAIN calls : calls[i].op = "delete_detector"

\* the service after the calls of a log that returned, applied in order
RECURSIVE Replay(_, _)
Replay(svc, log) ==
    IF log = << >> THEN svc
    ELSE LET c == Head(log)
             after ==
                 IF ~c.ok THEN svc
                 ELSE IF c.op = "create_detector"
                      THEN create_detector(svc, c.id, c.t, c.payload)
                 ELSE IF c.op = "update_detector"
                      THEN update_detector(svc, c.id, c.t, c.payload)
                 ELSE IF c.op = "delete_detector"
                      THEN delete_detector(svc, c.id)
                 ELSE IF c.op = "delete_tag"
                      THEN delete_tag(svc, FromTag(c.path), c.strip)
                 ELSE svc
         IN  Replay(after, Tail(log))

\* C10: a call that raised is the last call of its run and the run has
\* failed; the service holds what it held when the run started plus the
\* effect of the calls that returned, nothing undone.
C10_FailFast ==
    /\ \A i \in DOMAIN calls : ~calls[i].ok => i = Len(calls) /\ pc = "failed"
    /\ pc = "failed" => calls # << >> /\ ~calls[Len(calls)].ok
    /\ remote = Replay(remote0, calls)

C10_Witness ==
    /\ pc = "failed"
    /\ todo # NoTodo
    /\ remote # remote0
    /\ \E i \in DOMAIN calls : calls[i].op = "create_detector" /\ calls[i].ok

\* C11: a non-dry-run sync that completes right after a failed non-dry-run
\* sync of the same scope over the same files issues no create, update or
\* delete call for a path the failed run had already created, updated or
\* deleted.
C11_Reentrant ==
    (pc = "done" /\ retry.on) =>
        \A i \in DOMAIN calls :
            calls[i].op \in Mutations => calls[i].path \notin retry.done

\* C12: when a non-dry-run sync has completed, the log holds for every new
\* path exactly one call, a create with the local record; for every updated
\* path exactly one call, an update of the id of its remote record with the
\* local record; for every removed path exactly one call on the id of its
\* remote record, a delete; and no call for a common path that is not
\* updated.
C12_OneMutation ==
    (pc = "done" /\ ~dry_run) =>
        /\ \A p \in part.new :
              \E i \in DOMAIN calls :
                  /\ CallsFor(p) = {i}
                  /\ calls[i].op = "create_detector"
                  /\ calls[i].payload = from_files[p]
                  /\ calls[i].payload = load_detector(scope, p, files[p])
        /\ \A p \in part.updated :
              \E i \in DOMAIN calls :
                  /\ CallsFor(p) = {i}
                  /\ calls[i].op = "update_detector"
                  /\ calls[i].id = from_signalfx[p].id
                  /\ calls[i].payload = from_files[p]
                  /\ calls[i].payload = load_detector(scope, p, files[p])
        /\ \A p \in part.removed :
              \E i \in DOMAIN calls :
                  /\ { j \in DOMAIN calls : calls[j].id = from_signalfx[p].id }
                       = {i}
                  /\ calls[i].op = "delete_detector"
                  /\ calls[i].path = p
                  /\ \A j \in CallsFor(p) :
                        calls[j].op \in {"delete_detector", "delete_tag"}
        /\ \A p \in part.common \ part.updated : CallsFor(p) = {}

C12_Witness ==
    /\ pc = "done" /\ ~dry_run
    /\ part.new # {} /\ part.updated # {} /\ part.removed # {}

\* the rule objects a payload's rules hold, in order, as they read
RulesOf(d) == [i \in DOMAIN d.rules |-> d.heap[d.rules[i].ref]]

\* C15: load() of a payload whose rules are a mapping returns a list with
\* one element per key, the element of a key carrying that key as its
\* detectLabel and the other fields of the rule as they were, the labels of
\* the list being the keys of the mapping; rules that are a list come back
\* unchanged.
C15_RulesCoerced ==
    loaded.raised = "none" =>
        /\ parsed.rules_type = "dict" =>
              LET out == RulesOf(loaded.detector)
                  in == RulesOf(parsed)
              IN  /\ loaded.detector.rules_type = "list"
                  /\ Len(out) = Len(parsed.rules)
                  /\ \A i \in DOMAIN parsed.rules :
                        /\ out[i].detectLabel = parsed.rules[i].key
                        /\ out[i].severity = in[i].severity
                  /\ { out[i].detectLabel : i \in DOMAIN out }
                       = { parsed.rules[i].key : i \in DOMAIN parsed.rules }
        /\ parsed.rules_type = "list" => loaded.detector = parsed

\* the payloads the validation is to refuse
Refused(d) ==
    \/ d.name \in {"absent", "None", "empty"}
    \/ d.description \in {"absent", "None", "empty"}
    \/ d.rules_type \notin {"absent", "list", "dict"}

\* C16: validate raises its validation error (ValueError) exactly for the
\* payloads whose name or description is missing or empty or whose rules
\* are there and neither a list nor a mapping; any other payload is
\* returned.
C16_Validate ==
    loaded.raised # "not called" =>
        /\ validate(parsed) = "ValueError" <=> Refused(parsed)
        /\ ~Refused(parsed) => validate(parsed) = "none"

\* a file of the directory does not load
BadFile == \E p \in Paths : files[p] # NoFile /\ load_error(files[p]) # "none"

\* C13: over a directory holding a file that does not load, a sync ends in
\* the scan: it keeps no local record, makes no client call, neither the
\* listing nor any other, and leaves the service as it was.
C13_ScanAborts ==
    BadFile =>
        /\ pc \in {"idle", "scan_failed"}
        /\ from_files = <<>>
        /\ calls = <<>>
        /\ remote = remote0

C13_Witness ==
    /\ pc = "scan_failed"
    /\ remote # {}
    /\ \E p \in Paths : files[p] \in FileRecs
    /\ \E p \in Paths : files[p] \in BadFiles

\* C14: the local record of path p holds the tags the file declares, then
\* the marker, then scope:<scope> when the run is scoped and nothing when
\* it is not, then from:p; its lastUpdated is the whole milliseconds of
\* the file's modification time.
C14_LocalRecord ==
    \A p \in DOMAIN from_files :
        LET tags == from_files[p].tags
            n == Len(files[p].tags)
        IN  /\ SubSeq(tags, 1, n) = files[p].tags
            /\ SYNCER_MARKER_TAG \in Range(tags)
            /\ FromTag(p) \in Range(tags)
            /\ scope # <<>> => /\ ScopeTag(scope) \in Range(tags)
                               /\ Len(tags) = n + 3
            /\ scope = <<>> => Len(tags) = n + 2
            /\ from_files[p].lastUpdated * UsPerMs <= files[p].mtime
            /\ files[p].mtime < (from_files[p].lastUpdated + 1) * UsPerMs

C14_Witness ==
    /\ scope # <<>>
    /\ \E p \in DOMAIN from_files :
          /\ files[p].tags # <<>>
          /\ files[p].mtime > from_files[p].lastUpdated * UsPerMs

\* the loop of sync() a logged call belongs to: 0 the listing, 1 new,
\* 2 updated, 3 removed
Bucket(c, pt) ==
    IF c.op = "get_detectors" THEN 0
    ELSE IF c.op = "create_detector" THEN 1
    ELSE IF c.op = "update_detector" THEN 2
    ELSE IF c.op = "validate_detector"
         THEN (IF c.path \in pt.new THEN 1 ELSE 2)
    ELSE 3

\* C17: in the log of a run the listing is the first call and the only
\* listing, every create (or its validate) comes before every update (or
\* its validate) and every update before every call of a removal; no call
\* is logged before the scan has ended, and once the partition is computed
\* no step changes it or the two sets it was computed from.
C17_Ordered ==
    [][ /\ \A i, j \in DOMAIN calls' :
              i < j => Bucket(calls'[i], part') <= Bucket(calls'[j], part')
        /\ \A i \in DOMAIN calls' :
              calls'[i].op = "get_detectors" <=> i = 1
        /\ calls' # << >> => pc' \in {"apply", "done", "failed"}
        /\ pc' \in {"apply", "done"} => calls' # << >>
        /\ pc = "apply" => /\ part' = part
                           /\ from_signalfx' = from_signalfx
                           /\ from_files' = from_files ]_vars

C17_Witness ==
    /\ pc = "done"
    /\ \E i, j, k \in DOMAIN calls :
          /\ i < j /\ j < k
          /\ Bucket(calls[i], part) = 1
          /\ Bucket(calls[j], part) = 2
          /\ Bucket(calls[k], part) = 3

\* C18: in a non-dry-run sync that has come to its removals, the removal
\* of a path whose detector is no longer in the service can return and
\* leave the run going, with the other removed paths still to be visited.
C18_RemoveAbsent ==
    (pc = "apply" /\ ~dry_run /\ may_remove(todo)) =>
        \A p \in todo.removed :
            (\A d \in remote : d.id # from_signalfx[p].id) =>
                ENABLED ( /\ RemovePath(p)
                          /\ pc' = "apply"
                          /\ todo'.removed = todo.removed \ {p} )

C18_Witness ==
    /\ pc = "done" /\ ~dry_run
    /\ \E i, j \in DOMAIN calls :
          /\ i < j
          /\ calls[i].op = "delete_detector" /\ calls[i].ok
          /\ calls[i].id \in gone
          /\ calls[i + 1].op = "delete_tag" /\ calls[i + 1].ok
          /\ calls[j].op = "delete_detector" /\ calls[j].ok
          /\ calls[j].id \notin gone

\* C19: between the runs that follow a start from an empty service, no two
\* owned detectors carry the same scope tags and name the same identities.
C19_NoDuplicates ==
    Idle =>
        \A d1, d2 \in remote :
            ( /\ d1 # d2
              /\ Owned(d1) /\ Owned(d2)
              /\ ScopeTags(d1) = ScopeTags(d2) ) =>
                Identities(d1) # Identities(d2)

\* C20: the record the scan builds for path p, stored by create_detector in
\* an empty service, is listed by a run of the same scope and keyed p.
C20_RoundTrip ==
    \A p \in DOMAIN from_files :
        LET svc == create_detector({}, 1, 1, from_files[p])
        IN  load_from_signalfx(scope, svc) = { [q \in {p} |-> d] : d \in svc }

====
